---- MODULE Spec2Model ----
(***************************************************************************)
(* Model of the auth service of rusty-auth-microservice:                   *)
(*   users.rs     UsersImpl    (credential store, two HashMap indices)      *)
(*   sessions.rs  SessionsImpl (session store, HashMap uuid -> token)       *)
(*   auth.rs      AuthService  (sign_in / sign_up / sign_out handlers,      *)
(*                              each store behind its own Mutex)            *)
(* Requests are served by concurrent tasks; a task takes one request at a  *)
(* time and runs its handler step by step.  A Mutex guard taken with        *)
(* `.lock().expect(..).method(..)` lives to the end of that statement.      *)
(***************************************************************************)
EXTENDS Integers, Sequences, FiniteSets, TLC

\* ---------------------------------------------------------------- bounds
NumTasks     == 2   \* concurrent request tasks of the tonic server
NumUsernames == 2   \* distinct username strings a client sends
NumPasswords == 2   \* distinct password strings a client sends
NumSalts     == 1   \* distinct values SaltString::generate may return
MaxUuid      == 4   \* number of Uuid::new_v4() values drawn in one run

Tasks     == 1..NumTasks
Usernames == 1..NumUsernames
Passwords == 1..NumPasswords
Salts     == 1..NumSalts

\* Strings that occur as identities, tokens and session keys.  EmptyString
\* is "" ; 1..MaxUuid are the texts of the UUIDs generated so far.
EmptyString == 0
Uuids       == 1..MaxUuid

NoTask == 0          \* a Mutex that nobody holds

\* Option<T>: None and Some(x); IsSome tests which.
None      == [some |-> FALSE]
Some(x)   == [some |-> TRUE, value |-> x]
IsSome(o) == o.some

VARIABLES
    uuid_to_user,      \* UsersImpl.uuid_to_user      : uuid     -> User
    username_to_user,  \* UsersImpl.username_to_user  : username -> User
    uuid_to_session,   \* SessionsImpl.uuid_to_session: key      -> token
    users_lock,        \* holder of AuthService.users_service's Mutex
    sessions_lock,     \* holder of AuthService.sessions_service's Mutex
    pc,                \* per task: position in its handler
    req,               \* per task: the request being served
    resp,              \* per task: the response returned
    frame,             \* per task: the handler's / store method's locals
    stdout,            \* per task: the line its handler printed for the
                       \*           request it is serving
    next_uuid,         \* the next value Uuid::new_v4() returns
    registered,        \* history: username -> password and uuid given to the
                       \*          create_user call that made its present record
    issued             \* history: <<uuid, token>> of each create_session

vars == <<uuid_to_user, username_to_user, uuid_to_session, users_lock,
          sessions_lock, pc, req, resp, frame, stdout, next_uuid, registered,
          issued>>

\* ------------------------------------------------------------ HashMap ops
Insert(m, k, v) == [x \in (DOMAIN m) \cup {k} |-> IF x = k THEN v ELSE m[x]]
Remove(m, k)    == [x \in (DOMAIN m) \ {k} |-> m[x]]
EmptyMap        == [x \in {} |-> None]

\* ------------------------------------------------- password hashing (users.rs)
Algorithm == "pbkdf2-sha256"

\* The PBKDF2 output for a password and a salt: one-way, and different
\* passwords give different outputs under the same salt.
Derive(password, salt) == password * 7 + salt * 3 + 100

\* Pbkdf2.hash_password(..).to_string(): the PHC string $alg$salt$hash, as
\* its fields.  Err is not produced for a generated salt and default params.
hash_password(password, salt) ==
    IF salt \in Salts
        THEN [ok |-> TRUE,  value |-> <<Algorithm, salt, Derive(password, salt)>>]
        ELSE [ok |-> FALSE, value |-> <<>>]

\* PasswordHash::new(&str).ok(): parse the PHC string, None if malformed.
PasswordHash_new(s) ==
    IF Len(s) = 3 /\ s[1] = Algorithm
        THEN Some([algorithm |-> s[1], salt |-> s[2], hash |-> s[3]])
        ELSE None

\* Mutant: verification that does not use the salt stored in the hash.
verify_password_ignores_salt(password, parsed) ==
    Derive(password, 0) = parsed.hash

\* Pbkdf2.verify_password(password, &parsed_hash).is_ok()
verify_password(password, parsed) ==
    Derive(password, parsed.salt) = parsed.hash

\* Mutant: create_user without the duplicate-username check.
username_exists_never(by_name, username) == FALSE

\* users.rs 127: self.username_to_user.contains_key(&username)
username_exists(by_name, username) == username \in DOMAIN by_name

\* Mutant: the lookup without the password verification.
get_user_uuid_any_password(by_name, username, password) ==
    IF username \notin DOMAIN by_name THEN None
    ELSE Some(by_name[username].user_uuid)

\* Mutant: an unknown username yields the default (empty) identity.
get_user_uuid_unknown_is_default(by_name, username, password) ==
    IF username \notin DOMAIN by_name THEN Some(EmptyString)
    ELSE LET user   == by_name[username]
             parsed == PasswordHash_new(user.password)
         IN  IF ~IsSome(parsed) THEN None
             ELSE IF user.username = username
                     /\ verify_password(password, parsed.value)
                  THEN Some(user.user_uuid)
                  ELSE None

\* UsersImpl::get_user_uuid on the username index `by_name`.
get_user_uuid(by_name, username, password) ==
    IF username \notin DOMAIN by_name THEN None
    ELSE LET user   == by_name[username]
             parsed == PasswordHash_new(user.password)
         IN  IF ~IsSome(parsed) THEN None
             ELSE IF user.username = username
                     /\ verify_password(password, parsed.value)
                  THEN Some(user.user_uuid)
                  ELSE None

\* ------------------------------------------------------------- session store
\* Mutant: an existing session is kept (entry().or_insert).
create_session_keep_first(sessions, user_uuid, session) ==
    IF user_uuid \in DOMAIN sessions THEN sessions
    ELSE [x \in (DOMAIN sessions) \cup {user_uuid} |->
             IF x = user_uuid THEN session ELSE sessions[x]]

\* Mutant: the map keyed by the token, not by the user's uuid.
create_session_keyed_by_token(sessions, user_uuid, session) ==
    [x \in (DOMAIN sessions) \cup {session} |->
        IF x = session THEN user_uuid ELSE sessions[x]]

\* SessionsImpl::create_session: the map after inserting uuid -> session.
create_session(sessions, user_uuid, session) == Insert(sessions, user_uuid, session)

\* Mutant: deleting one session clears the map.
delete_session_clears(sessions, user_uuid) ==
    IF user_uuid \in DOMAIN sessions THEN [x \in {} |-> 0] ELSE sessions

\* Mutant: delete_session that looks for the entry holding the token.
delete_session_by_token(sessions, user_uuid) ==
    [k \in {x \in DOMAIN sessions : sessions[x] # user_uuid} |-> sessions[k]]

\* SessionsImpl::delete_session
delete_session(sessions, user_uuid) ==
    IF user_uuid \in DOMAIN sessions THEN Remove(sessions, user_uuid) ELSE sessions

\* ------------------------------------------------------------------- status
Success == "SUCCESS"
Failure == "FAILURE"

TypeOK ==
    /\ users_lock \in Tasks \cup {NoTask}
    /\ sessions_lock \in Tasks \cup {NoTask}
    /\ next_uuid \in 1..(MaxUuid + 1)
    /\ DOMAIN uuid_to_user \subseteq Uuids
    /\ DOMAIN username_to_user \subseteq Usernames
    /\ DOMAIN uuid_to_session \subseteq Uuids \cup {EmptyString}

Init ==
    /\ uuid_to_user = EmptyMap
    /\ username_to_user = EmptyMap
    /\ uuid_to_session = EmptyMap
    /\ users_lock = NoTask
    /\ sessions_lock = NoTask
    /\ pc = [t \in Tasks |-> "idle"]
    /\ req = [t \in Tasks |-> None]
    /\ resp = [t \in Tasks |-> None]
    /\ frame = [t \in Tasks |-> None]
    /\ stdout = [t \in Tasks |-> None]
    /\ next_uuid = 1
    /\ registered = EmptyMap
    /\ issued = <<>>

\* ------------------------------------------------------------------ logging
\* `{:?}` of a request (tonic::Request and the prost message derive Debug):
\* the message's type and every field with its value.
debug_fmt(request) ==
    [type   |-> request.op,
     fields |-> {<<f, request[f]>> : f \in (DOMAIN request) \ {"op"}}]

\* auth.rs 98, 158, 209: println!("Got a request: {:?}", request)
println(debug) == [text |-> "Got a request: ", request |-> debug]

\* The requests in flight that may still draw a UUID (a user's identity in
\* create_user, a token in create_session).  A run draws MaxUuid values:
\* a request that may draw one is taken only while one is left for it.
MayDrawUuid ==
    {t \in Tasks : pc[t] \in {"su_lock_users", "su_create_user",
                              "si_lock_users", "si_get_user_uuid",
                              "si_lock_sessions", "si_create_session"}}
UuidLeft == next_uuid + Cardinality(MayDrawUuid) <= MaxUuid

\* ------------------------------------------------------------------ sign_up
\* auth.rs 157-160: the request is received (and printed).
sign_up_request(t, username, password) ==
    /\ pc[t] = "idle"
    /\ UuidLeft
    /\ req' = [req EXCEPT ![t] = [op |-> "SignUp", username |-> username,
                                  password |-> password]]
    /\ stdout' = [stdout EXCEPT ![t] = println(debug_fmt(req'[t]))]
    /\ pc' = [pc EXCEPT ![t] = "su_lock_users"]
    /\ UNCHANGED <<uuid_to_user, username_to_user, uuid_to_session, users_lock,
                   sessions_lock, resp, frame, next_uuid, registered, issued>>

\* Mutant: create_user entered without waiting for the Mutex.
sign_up_lock_users_no_mutex(t) ==
    /\ pc[t] = "su_lock_users"
    /\ users_lock' = t
    /\ pc' = [pc EXCEPT ![t] = "su_create_user"]
    /\ UNCHANGED <<uuid_to_user, username_to_user, uuid_to_session,
                   sessions_lock, req, resp, frame, next_uuid, registered,
                   issued, stdout>>

\* auth.rs 162-163: self.users_service.lock().expect(..)
sign_up_lock_users(t) ==
    /\ pc[t] = "su_lock_users"
    /\ users_lock = NoTask
    /\ users_lock' = t
    /\ pc' = [pc EXCEPT ![t] = "su_create_user"]
    /\ UNCHANGED <<uuid_to_user, username_to_user, uuid_to_session,
                   sessions_lock, req, resp, frame, next_uuid, registered,
                   issued, stdout>>

\* Mutant: sign_up hands the error of create_user on to its caller as an Err
\* status instead of a reply.
sign_up_create_user_propagates_error(t) ==
    /\ pc[t] = "su_create_user"
    /\ IF username_exists(username_to_user, req[t].username)
          THEN /\ users_lock' = NoTask
               /\ resp' = [resp EXCEPT ![t] = [error |-> "Status"]]
               /\ pc' = [pc EXCEPT ![t] = "done"]
               /\ UNCHANGED <<frame, next_uuid>>
          ELSE \E salt \in Salts :
               LET hashed == hash_password(req[t].password, salt) IN
               IF ~hashed.ok
                  THEN /\ users_lock' = NoTask
                       /\ resp' = [resp EXCEPT ![t] = [error |-> "Status"]]
                       /\ pc' = [pc EXCEPT ![t] = "done"]
                       /\ UNCHANGED <<frame, next_uuid>>
                  ELSE /\ frame' = [frame EXCEPT ![t] =
                              [user_uuid |-> next_uuid,
                               username  |-> req[t].username,
                               password  |-> hashed.value]]
                       /\ next_uuid' = next_uuid + 1
                       /\ pc' = [pc EXCEPT ![t] = "su_insert_username"]
                       /\ UNCHANGED <<users_lock, resp>>
    /\ UNCHANGED <<uuid_to_user, username_to_user, uuid_to_session,
                   sessions_lock, req, registered, issued, stdout>>

\* Mutant: the identity is derived from the username, not drawn anew.
sign_up_create_user_identity_from_username(t) ==
    /\ pc[t] = "su_create_user"
    /\ IF username_exists(username_to_user, req[t].username)
          THEN /\ users_lock' = NoTask
               /\ resp' = [resp EXCEPT ![t] = [status_code |-> Failure]]
               /\ pc' = [pc EXCEPT ![t] = "done"]
               /\ UNCHANGED <<frame, next_uuid>>
          ELSE \E salt \in Salts :
               LET hashed == hash_password(req[t].password, salt) IN
               IF ~hashed.ok
                  THEN /\ users_lock' = NoTask
                       /\ resp' = [resp EXCEPT ![t] = [status_code |-> Failure]]
                       /\ pc' = [pc EXCEPT ![t] = "done"]
                       /\ UNCHANGED <<frame, next_uuid>>
                  ELSE /\ frame' = [frame EXCEPT ![t] =
                              [user_uuid |-> req[t].username,
                               username  |-> req[t].username,
                               password  |-> hashed.value]]
                       /\ next_uuid' = next_uuid + 1
                       /\ pc' = [pc EXCEPT ![t] = "su_insert_username"]
                       /\ UNCHANGED <<users_lock, resp>>
    /\ UNCHANGED <<uuid_to_user, username_to_user, uuid_to_session,
                   sessions_lock, req, registered, issued, stdout>>

\* users.rs 124-142: create_user up to the construction of `user`.  On a
\* duplicate username or a hashing error it returns Err, the guard is
\* dropped and sign_up replies FAILURE (auth.rs 174-180).
sign_up_create_user(t) ==
    /\ pc[t] = "su_create_user"
    /\ IF username_exists(username_to_user, req[t].username)
          THEN /\ users_lock' = NoTask
               /\ resp' = [resp EXCEPT ![t] = [status_code |-> Failure]]
               /\ pc' = [pc EXCEPT ![t] = "done"]
               /\ UNCHANGED <<frame, next_uuid>>
          ELSE \E salt \in Salts :
               LET hashed == hash_password(req[t].password, salt) IN
               IF ~hashed.ok
                  THEN /\ users_lock' = NoTask
                       /\ resp' = [resp EXCEPT ![t] = [status_code |-> Failure]]
                       /\ pc' = [pc EXCEPT ![t] = "done"]
                       /\ UNCHANGED <<frame, next_uuid>>
                  ELSE /\ frame' = [frame EXCEPT ![t] =
                              [user_uuid |-> next_uuid,
                               username  |-> req[t].username,
                               password  |-> hashed.value]]
                       /\ next_uuid' = next_uuid + 1
                       /\ pc' = [pc EXCEPT ![t] = "su_insert_username"]
                       /\ UNCHANGED <<users_lock, resp>>
    /\ UNCHANGED <<uuid_to_user, username_to_user, uuid_to_session,
                   sessions_lock, req, registered, issued, stdout>>

\* users.rs 144: self.username_to_user.insert(username, user.clone())
sign_up_insert_username(t) ==
    /\ pc[t] = "su_insert_username"
    /\ username_to_user' = Insert(username_to_user, frame[t].username, frame[t])
    /\ pc' = [pc EXCEPT ![t] = "su_insert_uuid"]
    /\ UNCHANGED <<uuid_to_user, uuid_to_session, users_lock, sessions_lock,
                   req, resp, frame, next_uuid, registered, issued, stdout>>

\* Mutant: sign_up that also opens a session for the new user.
sign_up_insert_uuid_opens_session(t) ==
    /\ pc[t] = "su_insert_uuid"
    /\ uuid_to_user' = Insert(uuid_to_user, frame[t].user_uuid, frame[t])
    /\ registered' = Insert(registered, frame[t].username,
                            [password  |-> req[t].password,
                             user_uuid |-> frame[t].user_uuid])
    /\ users_lock' = NoTask
    /\ resp' = [resp EXCEPT ![t] = [status_code |-> Success]]
    /\ pc' = [pc EXCEPT ![t] = "done"]
    /\ uuid_to_session' = create_session(uuid_to_session, frame[t].user_uuid,
                                        EmptyString)
    /\ UNCHANGED <<username_to_user, sessions_lock,
                   req, frame, next_uuid, issued, stdout>>

\* users.rs 145-147: self.uuid_to_user.insert(..); Ok(()).  The guard is
\* dropped and sign_up replies SUCCESS (auth.rs 166-172).
sign_up_insert_uuid(t) ==
    /\ pc[t] = "su_insert_uuid"
    /\ uuid_to_user' = Insert(uuid_to_user, frame[t].user_uuid, frame[t])
    /\ registered' = Insert(registered, frame[t].username,
                            [password  |-> req[t].password,
                             user_uuid |-> frame[t].user_uuid])
    /\ users_lock' = NoTask
    /\ resp' = [resp EXCEPT ![t] = [status_code |-> Success]]
    /\ pc' = [pc EXCEPT ![t] = "done"]
    /\ UNCHANGED <<username_to_user, uuid_to_session, sessions_lock,
                   req, frame, next_uuid, issued, stdout>>

\* ------------------------------------------------------------------ sign_in
\* auth.rs 94-100: the request is received (and printed).
sign_in_request(t, username, password) ==
    /\ pc[t] = "idle"
    /\ UuidLeft
    /\ req' = [req EXCEPT ![t] = [op |-> "SignIn", username |-> username,
                                  password |-> password]]
    /\ stdout' = [stdout EXCEPT ![t] = println(debug_fmt(req'[t]))]
    /\ pc' = [pc EXCEPT ![t] = "si_lock_users"]
    /\ UNCHANGED <<uuid_to_user, username_to_user, uuid_to_session, users_lock,
                   sessions_lock, resp, frame, next_uuid, registered, issued>>

\* Mutant: get_user_uuid entered without waiting for the Mutex.
sign_in_lock_users_no_mutex(t) ==
    /\ pc[t] = "si_lock_users"
    /\ users_lock' = t
    /\ pc' = [pc EXCEPT ![t] = "si_get_user_uuid"]
    /\ UNCHANGED <<uuid_to_user, username_to_user, uuid_to_session,
                   sessions_lock, req, resp, frame, next_uuid, registered,
                   issued, stdout>>

\* auth.rs 102-103: self.users_service.lock().expect(..)
sign_in_lock_users(t) ==
    /\ pc[t] = "si_lock_users"
    /\ users_lock = NoTask
    /\ users_lock' = t
    /\ pc' = [pc EXCEPT ![t] = "si_get_user_uuid"]
    /\ UNCHANGED <<uuid_to_user, username_to_user, uuid_to_session,
                   sessions_lock, req, resp, frame, next_uuid, registered,
                   issued, stdout>>

\* Variants of the step below, for the lock discipline and the failure reply:
\* the guard is kept after a successful look-up (keep_some) or after a failed
\* one (keep_none), and the failure reply names the user when there is one
\* (name_user).
sign_in_get_user_uuid_variant(t, keep_some, keep_none, name_user) ==
    /\ pc[t] = "si_get_user_uuid"
    /\ LET result == get_user_uuid(username_to_user, req[t].username,
                                   req[t].password)
           known  == req[t].username \in DOMAIN username_to_user IN
       IF IsSome(result)
          THEN /\ frame' = [frame EXCEPT ![t] = [user_uuid |-> result.value]]
               /\ pc' = [pc EXCEPT ![t] = "si_lock_sessions"]
               /\ users_lock' = IF keep_some THEN users_lock ELSE NoTask
               /\ UNCHANGED resp
          ELSE /\ resp' = [resp EXCEPT ![t] =
                    [status_code   |-> Failure,
                     user_uuid     |->
                        IF name_user /\ known
                           THEN username_to_user[req[t].username].user_uuid
                           ELSE EmptyString,
                     session_token |-> EmptyString]]
               /\ pc' = [pc EXCEPT ![t] = "done"]
               /\ users_lock' = IF keep_none THEN users_lock ELSE NoTask
               /\ UNCHANGED frame
    /\ UNCHANGED <<uuid_to_user, username_to_user, uuid_to_session,
                   sessions_lock, req, next_uuid, registered, issued, stdout>>

sign_in_get_user_uuid_keeps_guard(t) ==
    sign_in_get_user_uuid_variant(t, TRUE, FALSE, FALSE)

sign_in_get_user_uuid_leaks_guard(t) ==
    sign_in_get_user_uuid_variant(t, FALSE, TRUE, FALSE)

sign_in_get_user_uuid_names_user(t) ==
    sign_in_get_user_uuid_variant(t, FALSE, FALSE, TRUE)

\* auth.rs 104-117: get_user_uuid under the guard, which is dropped at the
\* end of the statement; on None the handler replies FAILURE and returns.
sign_in_get_user_uuid(t) ==
    /\ pc[t] = "si_get_user_uuid"
    /\ LET result == get_user_uuid(username_to_user, req[t].username,
                                   req[t].password) IN
       IF IsSome(result)
          THEN /\ frame' = [frame EXCEPT ![t] = [user_uuid |-> result.value]]
               /\ pc' = [pc EXCEPT ![t] = "si_lock_sessions"]
               /\ UNCHANGED resp
          ELSE /\ resp' = [resp EXCEPT ![t] = [status_code   |-> Failure,
                                               user_uuid     |-> EmptyString,
                                               session_token |-> EmptyString]]
               /\ pc' = [pc EXCEPT ![t] = "done"]
               /\ UNCHANGED frame
    /\ users_lock' = NoTask
    /\ UNCHANGED <<uuid_to_user, username_to_user, uuid_to_session,
                   sessions_lock, req, next_uuid, registered, issued, stdout>>

\* Mutant: a handler with a suspension point before the sessions lock, at
\* which the call is dropped when the caller has gone.
sign_in_lock_sessions_or_dropped(t) ==
    /\ pc[t] = "si_lock_sessions"
    /\ \/ /\ sessions_lock = NoTask
          /\ sessions_lock' = t
          /\ pc' = [pc EXCEPT ![t] = "si_create_session"]
          /\ UNCHANGED <<req, frame, stdout>>
       \/ /\ pc' = [pc EXCEPT ![t] = "idle"]
          /\ req' = [req EXCEPT ![t] = None]
          /\ frame' = [frame EXCEPT ![t] = None]
          /\ stdout' = [stdout EXCEPT ![t] = None]
          /\ UNCHANGED sessions_lock
    /\ UNCHANGED <<uuid_to_user, username_to_user, uuid_to_session,
                   users_lock, resp, next_uuid, registered, issued>>

\* auth.rs 119-120: self.sessions_service.lock().expect(..)
sign_in_lock_sessions(t) ==
    /\ pc[t] = "si_lock_sessions"
    /\ sessions_lock = NoTask
    /\ sessions_lock' = t
    /\ pc' = [pc EXCEPT ![t] = "si_create_session"]
    /\ UNCHANGED <<uuid_to_user, username_to_user, uuid_to_session,
                   users_lock, req, resp, frame, next_uuid, registered,
                   issued, stdout>>

\* Mutant: create_session that hands out the token the user already has.
sign_in_create_session_reuses_token(t) ==
    /\ pc[t] = "si_create_session"
    /\ LET session == IF frame[t].user_uuid \in DOMAIN uuid_to_session
                         THEN uuid_to_session[frame[t].user_uuid]
                         ELSE next_uuid IN
       /\ uuid_to_session' = create_session(uuid_to_session,
                                            frame[t].user_uuid, session)
       /\ issued' = Append(issued, <<frame[t].user_uuid, session>>)
       /\ resp' = [resp EXCEPT ![t] = [status_code   |-> Success,
                                       user_uuid     |-> frame[t].user_uuid,
                                       session_token |-> session]]
    /\ next_uuid' = next_uuid + 1
    /\ sessions_lock' = NoTask
    /\ pc' = [pc EXCEPT ![t] = "done"]
    /\ UNCHANGED <<uuid_to_user, username_to_user, users_lock, req, frame,
                   registered, stdout>>

\* auth.rs 121-129 with sessions.rs 72-76: create_session draws a new
\* token, stores it under the user's uuid and returns it; the guard is
\* dropped and the handler replies SUCCESS.
sign_in_create_session(t) ==
    /\ pc[t] = "si_create_session"
    /\ LET session == next_uuid IN
       /\ uuid_to_session' = create_session(uuid_to_session,
                                            frame[t].user_uuid, session)
       /\ issued' = Append(issued, <<frame[t].user_uuid, session>>)
       /\ resp' = [resp EXCEPT ![t] = [status_code   |-> Success,
                                       user_uuid     |-> frame[t].user_uuid,
                                       session_token |-> session]]
    /\ next_uuid' = next_uuid + 1
    /\ sessions_lock' = NoTask
    /\ pc' = [pc EXCEPT ![t] = "done"]
    /\ UNCHANGED <<uuid_to_user, username_to_user, users_lock, req, frame,
                   registered, stdout>>

\* ----------------------------------------------------------------- sign_out
\* The strings a client can present: "" or the text of a UUID that exists.
Presentable == {EmptyString} \cup (1..(next_uuid - 1))

\* auth.rs 208-211: the request is received (and printed).
sign_out_request(t, session_token) ==
    /\ pc[t] = "idle"
    /\ session_token \in Presentable
    /\ req' = [req EXCEPT ![t] = [op |-> "SignOut",
                                  session_token |-> session_token]]
    /\ stdout' = [stdout EXCEPT ![t] = println(debug_fmt(req'[t]))]
    /\ pc' = [pc EXCEPT ![t] = "so_lock_sessions"]
    /\ UNCHANGED <<uuid_to_user, username_to_user, uuid_to_session, users_lock,
                   sessions_lock, resp, frame, next_uuid, registered, issued>>

\* auth.rs 213: self.sessions_service.lock().expect(..)
sign_out_lock_sessions(t) ==
    /\ pc[t] = "so_lock_sessions"
    /\ sessions_lock = NoTask
    /\ sessions_lock' = t
    /\ pc' = [pc EXCEPT ![t] = "so_delete_session"]
    /\ UNCHANGED <<uuid_to_user, username_to_user, uuid_to_session,
                   users_lock, req, resp, frame, next_uuid, registered,
                   issued, stdout>>

\* Mutant: sign_out reports a missing session as FAILURE.
sign_out_delete_session_reports_missing(t) ==
    /\ pc[t] = "so_delete_session"
    /\ uuid_to_session' = delete_session(uuid_to_session, req[t].session_token)
    /\ sessions_lock' = NoTask
    /\ resp' = [resp EXCEPT ![t] = [status_code |->
                    IF req[t].session_token \in DOMAIN uuid_to_session
                       THEN Success ELSE Failure]]
    /\ pc' = [pc EXCEPT ![t] = "done"]
    /\ UNCHANGED <<uuid_to_user, username_to_user, users_lock, req, frame,
                   next_uuid, registered, issued, stdout>>

\* auth.rs 213-219: delete_session(&req.session_token) under the guard,
\* then the reply, which is SUCCESS whatever happened.
sign_out_delete_session(t) ==
    /\ pc[t] = "so_delete_session"
    /\ uuid_to_session' = delete_session(uuid_to_session, req[t].session_token)
    /\ sessions_lock' = NoTask
    /\ resp' = [resp EXCEPT ![t] = [status_code |-> Success]]
    /\ pc' = [pc EXCEPT ![t] = "done"]
    /\ UNCHANGED <<uuid_to_user, username_to_user, users_lock, req, frame,
                   next_uuid, registered, issued, stdout>>

\* The response has been sent; the task is free for the next request.
respond(t) ==
    /\ pc[t] = "done"
    /\ pc' = [pc EXCEPT ![t] = "idle"]
    /\ req' = [req EXCEPT ![t] = None]
    /\ resp' = [resp EXCEPT ![t] = None]
    /\ frame' = [frame EXCEPT ![t] = None]
    /\ stdout' = [stdout EXCEPT ![t] = None]
    /\ UNCHANGED <<uuid_to_user, username_to_user, uuid_to_session, users_lock,
                   sessions_lock, next_uuid, registered, issued>>

\* -------------------------------------------------------------- delete_user
\* Users::delete_user is public but no handler calls it.  A caller reaches
\* the store through its Mutex, like the handlers do.
delete_user_request(t, user_uuid) ==
    /\ pc[t] = "idle"
    /\ user_uuid \in Presentable
    /\ req' = [req EXCEPT ![t] = [op |-> "DeleteUser", user_uuid |-> user_uuid]]
    /\ pc' = [pc EXCEPT ![t] = "du_lock_users"]
    /\ UNCHANGED <<uuid_to_user, username_to_user, uuid_to_session, users_lock,
                   sessions_lock, resp, frame, next_uuid, registered,
                   issued, stdout>>

delete_user_lock_users(t) ==
    /\ pc[t] = "du_lock_users"
    /\ users_lock = NoTask
    /\ users_lock' = t
    /\ pc' = [pc EXCEPT ![t] = "du_get"]
    /\ UNCHANGED <<uuid_to_user, username_to_user, uuid_to_session,
                   sessions_lock, req, resp, frame, next_uuid, registered,
                   issued, stdout>>

\* Mutant: delete_user that leaves the record in the username index.
delete_user_keeps_username(by_uuid, by_name, user_uuid) ==
    IF user_uuid \in DOMAIN by_uuid
       THEN [uuid_to_user     |-> Remove(by_uuid, user_uuid),
             username_to_user |-> by_name]
       ELSE [uuid_to_user |-> by_uuid, username_to_user |-> by_name]

\* users.rs 201-207: delete_user as a function of the two indices.
delete_user(by_uuid, by_name, user_uuid) ==
    IF user_uuid \in DOMAIN by_uuid
       THEN [uuid_to_user     |-> Remove(by_uuid, user_uuid),
             username_to_user |-> Remove(by_name, by_uuid[user_uuid].username)]
       ELSE [uuid_to_user |-> by_uuid, username_to_user |-> by_name]

\* users.rs 202-204: if let Some(user) = self.uuid_to_user.get(&user_uuid),
\* then self.username_to_user.remove(&user.username); otherwise return.
delete_user_remove_username(t) ==
    /\ pc[t] = "du_get"
    /\ IF req[t].user_uuid \in DOMAIN uuid_to_user
          THEN LET user == uuid_to_user[req[t].user_uuid] IN
               /\ frame' = [frame EXCEPT ![t] = [user_uuid |-> user.user_uuid,
                                                 username  |-> user.username]]
               /\ username_to_user' =
                      delete_user(uuid_to_user, username_to_user,
                                  req[t].user_uuid).username_to_user
               /\ pc' = [pc EXCEPT ![t] = "du_remove_uuid"]
               /\ UNCHANGED <<users_lock, resp>>
          ELSE /\ users_lock' = NoTask
               /\ resp' = [resp EXCEPT ![t] = [returned |-> TRUE]]
               /\ pc' = [pc EXCEPT ![t] = "done"]
               /\ UNCHANGED <<username_to_user, frame>>
    /\ UNCHANGED <<uuid_to_user, uuid_to_session, sessions_lock, req,
                   next_uuid, registered, issued, stdout>>

\* Mutant: delete_user that leaves the record in the identity index.
delete_user_remove_uuid_forgotten(t) ==
    /\ pc[t] = "du_remove_uuid"
    /\ registered' = Remove(registered, frame[t].username)
    /\ users_lock' = NoTask
    /\ resp' = [resp EXCEPT ![t] = [returned |-> TRUE]]
    /\ pc' = [pc EXCEPT ![t] = "done"]
    /\ UNCHANGED <<uuid_to_user, username_to_user, uuid_to_session,
                   sessions_lock, req, frame, next_uuid, issued, stdout>>

\* Mutant: delete_user that also removes the user's session.
delete_user_remove_uuid_cascades(t) ==
    /\ pc[t] = "du_remove_uuid"
    /\ uuid_to_user' = delete_user(uuid_to_user, username_to_user,
                                   req[t].user_uuid).uuid_to_user
    /\ registered' = Remove(registered, frame[t].username)
    /\ users_lock' = NoTask
    /\ resp' = [resp EXCEPT ![t] = [returned |-> TRUE]]
    /\ pc' = [pc EXCEPT ![t] = "done"]
    /\ uuid_to_session' = delete_session(uuid_to_session, req[t].user_uuid)
    /\ UNCHANGED <<username_to_user, sessions_lock, req,
                   frame, next_uuid, issued, stdout>>

\* users.rs 205: self.uuid_to_user.remove(&user_uuid); the call returns.
delete_user_remove_uuid(t) ==
    /\ pc[t] = "du_remove_uuid"
    /\ uuid_to_user' = delete_user(uuid_to_user, username_to_user,
                                   req[t].user_uuid).uuid_to_user
    /\ registered' = Remove(registered, frame[t].username)
    /\ users_lock' = NoTask
    /\ resp' = [resp EXCEPT ![t] = [returned |-> TRUE]]
    /\ pc' = [pc EXCEPT ![t] = "done"]
    /\ UNCHANGED <<username_to_user, uuid_to_session, sessions_lock, req,
                   frame, next_uuid, issued, stdout>>

\* ----------------------------------------------------------- specifications
\* The service: the three handlers of impl Auth for AuthService.
Next ==
    \/ \E t \in Tasks, u \in Usernames, p \in Passwords : sign_up_request(t, u, p)
    \/ \E t \in Tasks : sign_up_lock_users(t)
    \/ \E t \in Tasks : sign_up_create_user(t)
    \/ \E t \in Tasks : sign_up_insert_username(t)
    \/ \E t \in Tasks : sign_up_insert_uuid(t)
    \/ \E t \in Tasks, u \in Usernames, p \in Passwords : sign_in_request(t, u, p)
    \/ \E t \in Tasks : sign_in_lock_users(t)
    \/ \E t \in Tasks : sign_in_get_user_uuid(t)
    \/ \E t \in Tasks : sign_in_lock_sessions(t)
    \/ \E t \in Tasks : sign_in_create_session(t)
    \/ \E t \in Tasks, s \in Uuids \cup {EmptyString} : sign_out_request(t, s)
    \/ \E t \in Tasks : sign_out_lock_sessions(t)
    \/ \E t \in Tasks : sign_out_delete_session(t)
    \/ \E t \in Tasks : respond(t)

Spec == Init /\ [][Next]_vars

\* Fair scheduling of the handler calls.  A handler that can take its next
\* step takes it (the runtime keeps running a call that is not blocked), and
\* a handler waiting in Mutex::lock gets the lock if it is free again and
\* again (no waiter is passed over for ever).
handler_step(t) ==
    \/ sign_up_create_user(t)
    \/ sign_up_insert_username(t)
    \/ sign_up_insert_uuid(t)
    \/ sign_in_get_user_uuid(t)
    \/ sign_in_create_session(t)
    \/ sign_out_delete_session(t)

lock_step(t) ==
    \/ sign_up_lock_users(t)
    \/ sign_in_lock_users(t)
    \/ sign_in_lock_sessions(t)
    \/ sign_out_lock_sessions(t)

Fairness ==
    \A t \in Tasks :
        /\ WF_vars(handler_step(t))
        /\ SF_vars(lock_step(t))
        /\ WF_vars(respond(t))

SpecFair == Init /\ [][Next]_vars /\ Fairness

\* The credential store with all of its callers: sign_up (create_user),
\* sign_in (get_user_uuid, then a session) and direct calls of delete_user.
NextStore ==
    \/ \E t \in Tasks, u \in Usernames, p \in Passwords : sign_up_request(t, u, p)
    \/ \E t \in Tasks : sign_up_lock_users(t)
    \/ \E t \in Tasks : sign_up_create_user(t)
    \/ \E t \in Tasks : sign_up_insert_username(t)
    \/ \E t \in Tasks : sign_up_insert_uuid(t)
    \/ \E t \in Tasks, u \in Usernames, p \in Passwords : sign_in_request(t, u, p)
    \/ \E t \in Tasks : sign_in_lock_users(t)
    \/ \E t \in Tasks : sign_in_get_user_uuid(t)
    \/ \E t \in Tasks : sign_in_lock_sessions(t)
    \/ \E t \in Tasks : sign_in_create_session(t)
    \/ \E t \in Tasks, s \in Uuids \cup {EmptyString} : delete_user_request(t, s)
    \/ \E t \in Tasks : delete_user_lock_users(t)
    \/ \E t \in Tasks : delete_user_remove_username(t)
    \/ \E t \in Tasks : delete_user_remove_uuid(t)
    \/ \E t \in Tasks : respond(t)

SpecStore == Init /\ [][NextStore]_vars

\* =================================================================== claims
\* A task has computed the response of a request of kind `op`.
Replied(t, op) == pc[t] = "done" /\ req[t].op = op

\* The create_session calls made for identity `id`, as positions in issued.
IssuedTo(id) == {i \in 1..Len(issued) : issued[i][1] = id}
\* The token most recently issued for `id` (which has been issued one).
LastToken(id) ==
    issued[CHOOSE i \in IssuedTo(id) : \A j \in IssuedTo(id) : j <= i][2]
\* All tokens create_session has returned.
Tokens == {issued[i][2] : i \in 1..Len(issued)}
\* The records of the identity index that carry username u.
RecordsOf(u) == {id \in DOMAIN uuid_to_user : uuid_to_user[id].username = u}

\* C1: a session is destroyed on sign-out: once SignOut(T) has completed,
\* where T is the token most recently issued for identity I, the session
\* store holds no mapping for I.
C1_SignOutDestroysSession ==
    \A t \in Tasks : Replied(t, "SignOut") =>
        \A id \in Uuids :
            (IssuedTo(id) # {} /\ LastToken(id) = req[t].session_token)
                => id \notin DOMAIN uuid_to_session

\* C2: create_user for a username that already has a record returns an
\* error (so SignUp replies FAILURE) and leaves both indices of the
\* credential store exactly as they were; the existing record keeps its
\* identity and hash, so the original password still verifies.
C2_DuplicateSignUpFailsWithoutEffect ==
    [][\A t \in Tasks :
          (/\ pc[t] = "su_create_user"
           /\ pc'[t] # pc[t]
           /\ req[t].username \in DOMAIN username_to_user)
          => /\ pc'[t] = "done"
             /\ resp'[t] = [status_code |-> Failure]
             /\ username_to_user' = username_to_user
             /\ uuid_to_user' = uuid_to_user
             /\ registered' = registered
             /\ LET u == req[t].username IN
                get_user_uuid(username_to_user', u, registered[u].password)
                    = Some(username_to_user[u].user_uuid)]_vars

\* Witness of C2: a second SignUp for a registered username, with another
\* password, has been answered FAILURE.
C2_Witness ==
    \E t \in Tasks :
        /\ Replied(t, "SignUp")
        /\ resp[t].status_code = Failure
        /\ req[t].username \in DOMAIN registered
        /\ registered[req[t].username].password # req[t].password

\* The credentials of the SignIn or SignUp request task t serves are those
\* of a registered user: the username has a record and the password is the
\* one given when it was created.
GoodCredentials(t) ==
    /\ req[t].username \in DOMAIN registered
    /\ registered[req[t].username].password = req[t].password

\* C3: create_user for a username without a record returns Ok and adds
\* exactly one record, under a new key, to each index; while the record
\* exists, get_user_uuid with the sign-up password returns the identity
\* assigned at creation.  SignUp replies SUCCESS exactly for these calls.
C3_NewUserCreatedAndVerifiable ==
    /\ users_lock = NoTask =>
         \A u \in DOMAIN registered :
             get_user_uuid(username_to_user, u, registered[u].password)
                 = Some(registered[u].user_uuid)
    /\ \A t \in Tasks :
         /\ pc[t] = "su_insert_username" =>
              /\ frame[t].username \notin DOMAIN username_to_user
              /\ frame[t].user_uuid \notin DOMAIN uuid_to_user
         /\ pc[t] = "su_insert_uuid" =>
              /\ username_to_user[frame[t].username] = frame[t]
              /\ frame[t].user_uuid \notin DOMAIN uuid_to_user
         /\ Replied(t, "SignUp") =>
              IF resp[t].status_code = Success
                 THEN LET u == req[t].username  id == frame[t].user_uuid IN
                      /\ u \in DOMAIN registered
                      /\ registered[u] = [password |-> req[t].password,
                                          user_uuid |-> id]
                      /\ username_to_user[u] = frame[t]
                      /\ uuid_to_user[id] = frame[t]
                      /\ RecordsOf(u) = {id}
                 ELSE req[t].username \in DOMAIN registered

\* Witness of C3: a SignUp answered SUCCESS and a SignIn with the same
\* username and password answered SUCCESS with the identity it created.
C3_Witness ==
    \E t1, t2 \in Tasks :
        /\ Replied(t1, "SignUp") /\ resp[t1].status_code = Success
        /\ Replied(t2, "SignIn") /\ resp[t2].status_code = Success
        /\ req[t2].username = req[t1].username
        /\ req[t2].password = req[t1].password
        /\ resp[t2].user_uuid = frame[t1].user_uuid

\* C4: SignIn with an unknown username, or with a registered username and a
\* password other than the sign-up password, replies FAILURE with empty
\* identity and empty token, and does not touch the session store.
C4_SignInBadCredentialsFails ==
    [][\A t \in Tasks :
          (/\ pc[t] = "si_get_user_uuid"
           /\ pc'[t] # pc[t]
           /\ ~GoodCredentials(t))
          => /\ pc'[t] = "done"
             /\ resp'[t] = [status_code   |-> Failure,
                            user_uuid     |-> EmptyString,
                            session_token |-> EmptyString]
             /\ uuid_to_session' = uuid_to_session
             /\ issued' = issued]_vars

\* Witness of C4: a SignIn for a registered username with a wrong password
\* has been answered FAILURE while a session exists.
C4_Witness ==
    \E t \in Tasks :
        /\ Replied(t, "SignIn")
        /\ resp[t].status_code = Failure
        /\ req[t].username \in DOMAIN registered
        /\ registered[req[t].username].password # req[t].password
        /\ DOMAIN uuid_to_session # {}

\* C5: SignIn with a registered username and its sign-up password goes on
\* to create_session and replies SUCCESS with the user's identity and a
\* non-empty token that was never issued before; when create_session
\* returns, the session store maps that identity to exactly that token.
C5_SignInGoodCredentialsSucceeds ==
    [][\A t \in Tasks :
          /\ (/\ pc[t] = "si_get_user_uuid"
              /\ pc'[t] # pc[t]
              /\ GoodCredentials(t))
             => /\ pc'[t] = "si_lock_sessions"
                /\ frame'[t].user_uuid = registered[req[t].username].user_uuid
          /\ (/\ pc[t] = "si_create_session"
              /\ pc'[t] # pc[t])
             => LET id    == registered[req[t].username].user_uuid
                    token == resp'[t].session_token
                IN  /\ pc'[t] = "done"
                    /\ resp'[t].status_code = Success
                    /\ resp'[t].user_uuid = id
                    /\ token # EmptyString
                    /\ token \notin Tokens
                    /\ token \notin DOMAIN uuid_to_user
                    /\ \A k \in DOMAIN uuid_to_session : uuid_to_session[k] # token
                    /\ id \in DOMAIN uuid_to_session'
                    /\ uuid_to_session'[id] = token]_vars

\* Witness of C5: a SignIn has been answered SUCCESS and the session store
\* maps the returned identity to the returned token.
C5_Witness ==
    \E t \in Tasks :
        /\ Replied(t, "SignIn")
        /\ resp[t].status_code = Success
        /\ resp[t].user_uuid \in DOMAIN uuid_to_session
        /\ uuid_to_session[resp[t].user_uuid] = resp[t].session_token
        /\ Len(issued) >= 2

\* C6: at most one token per identity, last write wins: the tokens returned
\* by create_session are pairwise different, the store maps an identity
\* only to the token most recently issued for it, and it has no more
\* entries than identities that were issued a token.
C6_OneSessionPerIdentityLastWriteWins ==
    /\ \A i, j \in 1..Len(issued) : i # j => issued[i][2] # issued[j][2]
    /\ \A id \in DOMAIN uuid_to_session :
           IssuedTo(id) # {} /\ uuid_to_session[id] = LastToken(id)
    /\ Cardinality(DOMAIN uuid_to_session)
           <= Cardinality({issued[i][1] : i \in 1..Len(issued)})

\* Witness of C6: create_session ran twice for one identity and the store
\* holds one entry, the second token.
C6_Witness ==
    \E id \in Uuids :
        /\ Cardinality(IssuedTo(id)) >= 2
        /\ DOMAIN uuid_to_session = {id}
        /\ uuid_to_session[id] = LastToken(id)

\* C7: SignOut replies SUCCESS for every presented token in every state.
C7_SignOutAlwaysSucceeds ==
    \A t \in Tasks :
        Replied(t, "SignOut") => resp[t] = [status_code |-> Success]

\* Witness of C7: the same SignOut, for a string that was never a session
\* key, has been answered twice.
C7_Witness ==
    \E t1, t2 \in Tasks :
        /\ t1 # t2
        /\ Replied(t1, "SignOut") /\ Replied(t2, "SignOut")
        /\ req[t1].session_token = req[t2].session_token
        /\ req[t1].session_token \in Tokens
        /\ DOMAIN uuid_to_session # {}

\* C8: delete_session(k) removes the mapping with key k if there is one and
\* keeps every other mapping; without such a mapping it changes nothing;
\* deleting twice gives the same store as deleting once.
C8_DeleteSessionRemovesOnlyKey ==
    \A k \in Uuids \cup {EmptyString} :
        LET once == delete_session(uuid_to_session, k) IN
        /\ DOMAIN once = (DOMAIN uuid_to_session) \ {k}
        /\ \A x \in DOMAIN once : once[x] = uuid_to_session[x]
        /\ k \notin DOMAIN uuid_to_session => once = uuid_to_session
        /\ delete_session(once, k) = once

\* Witness of C8: a SignOut presenting an identity removed that identity's
\* session while another session stayed.
C8_Witness ==
    \E t \in Tasks :
        /\ Replied(t, "SignOut")
        /\ IssuedTo(req[t].session_token) # {}
        /\ req[t].session_token \notin DOMAIN uuid_to_session
        /\ DOMAIN uuid_to_session # {}

\* The two indices hold the same records: each record of one index is
\* stored, equal, under its other key in the other index.
InSync ==
    /\ \A id \in DOMAIN uuid_to_user :
           LET r == uuid_to_user[id] IN
           /\ r.user_uuid = id
           /\ r.username \in DOMAIN username_to_user
           /\ username_to_user[r.username] = r
    /\ \A u \in DOMAIN username_to_user :
           LET r == username_to_user[u] IN
           /\ r.username = u
           /\ r.user_uuid \in DOMAIN uuid_to_user
           /\ uuid_to_user[r.user_uuid] = r
    /\ Cardinality(DOMAIN uuid_to_user) = Cardinality(DOMAIN username_to_user)

\* C9: between store operations (nobody holds the credential store's
\* Mutex) the identity index and the username index are in sync.
C9_IndicesInSync == users_lock = NoTask => InSync

\* Witness of C9: a delete_user that found its record has returned and one
\* record is left.
C9_Witness ==
    \E t \in Tasks :
        /\ Replied(t, "DeleteUser")
        /\ "username" \in DOMAIN frame[t]
        /\ users_lock = NoTask
        /\ Cardinality(DOMAIN uuid_to_user) = 1

\* C10: of concurrent SignUp requests for one username at most one is
\* answered SUCCESS; a FAILURE means another request created the record;
\* the store then holds exactly one record for the username, and its
\* password is the one of the request answered SUCCESS.
C10_ConcurrentSignUpUnique ==
    /\ \A t1, t2 \in Tasks :
           (/\ t1 # t2
            /\ Replied(t1, "SignUp") /\ Replied(t2, "SignUp")
            /\ req[t1].username = req[t2].username)
           => ~(resp[t1].status_code = Success /\ resp[t2].status_code = Success)
    /\ \A t \in Tasks : Replied(t, "SignUp") =>
           LET u == req[t].username IN
           /\ users_lock = NoTask => Cardinality(RecordsOf(u)) = 1
           /\ resp[t].status_code = Failure => u \in DOMAIN registered
           /\ resp[t].status_code = Success =>
                /\ users_lock = NoTask =>
                     get_user_uuid(username_to_user, u, req[t].password)
                         = Some(frame[t].user_uuid)
                /\ \A p \in Passwords \ {req[t].password} :
                     users_lock = NoTask =>
                         get_user_uuid(username_to_user, u, p) = None
    /\ users_lock = NoTask =>
           \A u \in Usernames : Cardinality(RecordsOf(u)) <= 1

\* Witness of C10: two SignUp requests for one username, with different
\* passwords, were served together (neither response has been sent yet):
\* one has been answered SUCCESS, the other FAILURE.
C10_Witness ==
    \E t1, t2 \in Tasks :
        /\ t1 # t2
        /\ Replied(t1, "SignUp") /\ resp[t1].status_code = Success
        /\ Replied(t2, "SignUp") /\ resp[t2].status_code = Failure
        /\ req[t1].username = req[t2].username
        /\ req[t1].password # req[t2].password

\* C11: no request ever holds the users lock and the sessions lock together.
\* A SignIn request has given the users lock back before it asks for the
\* sessions lock, whether the look-up succeeded (it goes on to the session
\* store) or failed (it has replied FAILURE).
C11_NeverBothLocks ==
    \A t \in Tasks :
        /\ ~(users_lock = t /\ sessions_lock = t)
        /\ pc[t] \in {"si_lock_sessions", "si_create_session"}
               => users_lock # t
        /\ Replied(t, "SignIn")
               => (users_lock # t /\ sessions_lock # t)

\* Witness of C11: one SignIn request is past its look-up and holds the
\* sessions lock while another request holds the users lock.
C11_Witness ==
    \E t1, t2 \in Tasks :
        /\ t1 # t2
        /\ pc[t1] = "si_create_session" /\ sessions_lock = t1
        /\ users_lock = t2

\* The positions at which a request reads or changes the credential store
\* (users.rs 127-145, 172-179, 202-205) and the session store (sessions.rs
\* 72-76, 91-95).
UsersCritical ==
    {"su_create_user", "su_insert_username", "su_insert_uuid",
     "si_get_user_uuid", "du_get", "du_remove_uuid"}

SessionsCritical == {"si_create_session", "so_delete_session"}

\* C12: a request that is reading or changing a store holds that store's
\* lock, no two requests are inside the same store together, and a request
\* that is about to read the credential store finds every record in both of
\* its indices.
C12_StoreAccessUnderLock ==
    /\ \A t \in Tasks :
           /\ pc[t] \in UsersCritical => users_lock = t
           /\ pc[t] \in SessionsCritical => sessions_lock = t
    /\ \A t1, t2 \in Tasks :
           t1 # t2 =>
               /\ ~(pc[t1] \in UsersCritical /\ pc[t2] \in UsersCritical)
               /\ ~(pc[t1] \in SessionsCritical
                    /\ pc[t2] \in SessionsCritical)
    /\ \A t \in Tasks :
           pc[t] \in {"su_create_user", "si_get_user_uuid", "du_get"}
               => InSync

\* Witness of C12: a SignUp request has put its record in the username index
\* but not yet in the identity index, and a SignIn request for that username
\* is waiting for the users lock.
C12_Witness ==
    \E t1, t2 \in Tasks :
        /\ pc[t1] = "su_insert_uuid" /\ users_lock = t1
        /\ ~InSync
        /\ pc[t2] = "si_lock_users"
        /\ req[t2].username = req[t1].username

NoPlainTextStored ==
    \A r \in {uuid_to_user[id] : id \in DOMAIN uuid_to_user}
            \cup {username_to_user[u] : u \in DOMAIN username_to_user} :
        /\ r.password[1] = Algorithm
        /\ \A p \in Passwords : r.password[3] # p

\* No line printed for a SignUp or SignIn request shows the request's
\* password.
NoPlainTextLogged ==
    \A t \in Tasks :
        (pc[t] # "idle" /\ req[t].op \in {"SignUp", "SignIn"})
            => <<"password", req[t].password>> \notin stdout[t].request.fields

\* C14: plain-text passwords are never stored or logged: no user record and
\* no line printed by SignUp or SignIn contains the password of a request.
C14_NoPlainTextPassword == NoPlainTextStored /\ NoPlainTextLogged

\* The two causes of a failed SignIn, for the request task t serves.
UnknownUsername(t) == req[t].username \notin DOMAIN registered

WrongPassword(t) ==
    /\ req[t].username \in DOMAIN registered
    /\ registered[req[t].username].password # req[t].password

FailureReply ==
    [status_code   |-> Failure,
     user_uuid     |-> EmptyString,
     session_token |-> EmptyString]

\* C15: a SignIn for an unknown username and a SignIn for a registered
\* username with a wrong password get the same reply in every field
\* (FAILURE, empty identity, empty token): any two FAILURE replies of SignIn
\* are equal, and the look-up step that fails for either cause builds that
\* reply and changes neither the credential store nor the session store.
C15_SignInFailuresIndistinguishable ==
    /\ [](\A t1, t2 \in Tasks :
             (/\ Replied(t1, "SignIn") /\ resp[t1].status_code = Failure
              /\ Replied(t2, "SignIn") /\ resp[t2].status_code = Failure)
                 => resp[t1] = resp[t2])
    /\ [][\A t \in Tasks :
             (/\ pc[t] = "si_get_user_uuid"
              /\ pc'[t] # pc[t]
              /\ (UnknownUsername(t) \/ WrongPassword(t)))
             => /\ pc'[t] = "done"
                /\ resp'[t] = FailureReply
                /\ frame'[t] = frame[t]
                /\ UNCHANGED <<uuid_to_user, username_to_user,
                               uuid_to_session, issued, registered>>]_vars

\* Witness of C15: with one store state, a SignIn for an unknown username
\* and a SignIn for a registered username with a wrong password have both
\* been answered.
C15_Witness ==
    \E t1, t2 \in Tasks :
        /\ Replied(t1, "SignIn") /\ UnknownUsername(t1)
        /\ Replied(t2, "SignIn") /\ WrongPassword(t2)
        /\ resp[t1].status_code = Failure
        /\ resp[t2].status_code = Failure

\* A reply is an Ok envelope with a status code (never an Err status).
IsOkResponse(r) ==
    /\ "status_code" \in DOMAIN r
    /\ r.status_code \in {Success, Failure}

WithIdentity(by_uuid, by_name, id) ==
    [uuid_to_user     |-> {k \in DOMAIN by_uuid : k = id},
     username_to_user |-> {u \in DOMAIN by_name : by_name[u].user_uuid = id}]

\* C17: in every store the callers can produce, delete_user(id) removes the
\* record with identity id from both indices when there is one and leaves
\* every other record as it was; when there is none it changes nothing; and
\* a second delete_user(id) changes nothing more.  A caller that has
\* returned has left no record with the identity it named.
C17_DeleteUserRemovesFromBothIndices ==
    /\ users_lock = NoTask =>
         \A id \in Uuids \cup {EmptyString} :
            LET after  == delete_user(uuid_to_user, username_to_user, id)
                gone   == WithIdentity(uuid_to_user, username_to_user, id)
                twice  == delete_user(after.uuid_to_user,
                                      after.username_to_user, id)
            IN  /\ DOMAIN after.uuid_to_user
                      = DOMAIN uuid_to_user \ gone.uuid_to_user
                /\ DOMAIN after.username_to_user
                      = DOMAIN username_to_user \ gone.username_to_user
                /\ \A k \in DOMAIN after.uuid_to_user :
                       after.uuid_to_user[k] = uuid_to_user[k]
                /\ \A u \in DOMAIN after.username_to_user :
                       after.username_to_user[u] = username_to_user[u]
                /\ id \notin DOMAIN uuid_to_user =>
                       /\ after.uuid_to_user = uuid_to_user
                       /\ after.username_to_user = username_to_user
                /\ twice = after
    /\ \A t \in Tasks :
         (Replied(t, "DeleteUser") /\ users_lock = NoTask) =>
            LET left == WithIdentity(uuid_to_user, username_to_user,
                                     req[t].user_uuid)
            IN  left.uuid_to_user = {} /\ left.username_to_user = {}

\* Witness of C17: delete_user has removed a registered user's record and
\* returned, and another user's record is still in the store.
C17_Witness ==
    \E t \in Tasks :
        /\ Replied(t, "DeleteUser")
        /\ "username" \in DOMAIN frame[t]
        /\ users_lock = NoTask
        /\ DOMAIN uuid_to_user # {}
        /\ req[t].user_uuid \notin DOMAIN uuid_to_user

\* The positions of each handler, and a step of task t inside a handler:
\* from the receipt of the request to its reply.
SignUpPositions ==
    {"su_lock_users", "su_create_user", "su_insert_username",
     "su_insert_uuid"}

SignInPositions ==
    {"si_lock_users", "si_get_user_uuid", "si_lock_sessions",
     "si_create_session"}

SignOutPositions == {"so_lock_sessions", "so_delete_session"}

StepIn(t, positions) ==
    /\ pc'[t] # pc[t]
    /\ (pc[t] \in positions \/ pc'[t] \in positions)

\* C18: no step of a SignUp call changes the session store, and no step of
\* a SignOut call or of a SignIn call changes the credential store, whatever
\* the call replies.
C18_SideEffectsConfined ==
    [][\A t \in Tasks :
          /\ StepIn(t, SignUpPositions) => UNCHANGED uuid_to_session
          /\ StepIn(t, SignOutPositions)
                 => UNCHANGED <<uuid_to_user, username_to_user>>
          /\ StepIn(t, SignInPositions)
                 => UNCHANGED <<uuid_to_user, username_to_user>>]_vars

\* Witness of C18: with a user registered and signed in, a SignUp, a SignIn
\* and a SignOut call have each been served: a SignUp has been answered
\* while a session exists, and a SignOut has removed a session while the
\* user's record exists.
C18_Witness ==
    \E t1, t2 \in Tasks :
        /\ Replied(t1, "SignUp")
        /\ Replied(t2, "SignOut")
        /\ IssuedTo(req[t2].session_token) # {}
        /\ req[t2].session_token \notin DOMAIN uuid_to_session
        /\ DOMAIN uuid_to_user # {}
        /\ DOMAIN uuid_to_session # {}

\* C19: a user record, once in an index, stays there with the same identity,
\* username and stored password hash through every step of SignUp, SignIn
\* and SignOut; so every SUCCESS reply of SignIn for a username carries the
\* identity assigned when the username was registered.
C19_UserRecordsImmutable ==
    /\ [][/\ \A u \in DOMAIN username_to_user :
               /\ u \in DOMAIN username_to_user'
               /\ username_to_user'[u] = username_to_user[u]
          /\ \A id \in DOMAIN uuid_to_user :
               /\ id \in DOMAIN uuid_to_user'
               /\ uuid_to_user'[id] = uuid_to_user[id]]_vars
    /\ [](\A t \in Tasks :
             (Replied(t, "SignIn") /\ resp[t].status_code = Success)
                 => /\ req[t].username \in DOMAIN registered
                    /\ resp[t].user_uuid
                          = registered[req[t].username].user_uuid)

\* Witness of C19: two SignIn requests for one username have both been
\* answered SUCCESS, with different tokens.
C19_Witness ==
    \E t1, t2 \in Tasks :
        /\ t1 # t2
        /\ Replied(t1, "SignIn") /\ resp[t1].status_code = Success
        /\ Replied(t2, "SignIn") /\ resp[t2].status_code = Success
        /\ req[t1].username = req[t2].username
        /\ resp[t1].session_token # resp[t2].session_token
        /\ resp[t1].user_uuid = resp[t2].user_uuid

Verified(t) ==
    /\ pc[t] # "idle"
    /\ req[t].op = "SignIn"
    /\ "user_uuid" \in DOMAIN frame[t]

C22_ConcurrentSignInLastWins ==
    /\ [][\A t \in Tasks :
             (/\ pc[t] = "si_get_user_uuid"
              /\ pc'[t] # pc[t]
              /\ GoodCredentials(t))
             => /\ pc'[t] = "si_lock_sessions"
                /\ frame'[t].user_uuid
                      = registered[req[t].username].user_uuid]_vars
    /\ [](\A t1, t2 \in Tasks :
             (/\ t1 # t2
              /\ Replied(t1, "SignIn") /\ resp[t1].status_code = Success
              /\ Replied(t2, "SignIn") /\ resp[t2].status_code = Success
              /\ req[t1].username = req[t2].username)
             => LET id == resp[t1].user_uuid
                    t1_index == CHOOSE i \in IssuedTo(id) :
                                    issued[i][2] = resp[t1].session_token
                    t2_index == CHOOSE i \in IssuedTo(id) :
                                    issued[i][2] = resp[t2].session_token
                IN  /\ resp[t2].user_uuid = id
                    /\ resp[t1].session_token # resp[t2].session_token
                    /\ sessions_lock = NoTask =>
                          /\ id \in DOMAIN uuid_to_session
                          /\ uuid_to_session[id] = LastToken(id)
                          /\ uuid_to_session[id]
                                = IF t1_index > t2_index
                                     THEN resp[t1].session_token
                                     ELSE resp[t2].session_token)

\* Witness of C22: two SignIn requests for one user have both returned
\* SUCCESS and the session store holds the token of one of them, while the
\* token of the other, issued just before it, has been replaced.
C22_Witness ==
    \E t1, t2 \in Tasks :
        /\ Replied(t1, "SignIn") /\ resp[t1].status_code = Success
        /\ Replied(t2, "SignIn") /\ resp[t2].status_code = Success
        /\ req[t1].username = req[t2].username
        /\ resp[t2].session_token = resp[t1].session_token + 1
        /\ uuid_to_session[resp[t1].user_uuid] = resp[t2].session_token
        /\ Cardinality(DOMAIN uuid_to_session) = 1

\* C23: with SignUp, SignIn and SignOut requests only, every key of the
\* session store is the identity of a record that is in the credential store
\* (in both indices' terms: the identity index has it, under that identity,
\* and it was registered); no key is a token that was issued.
C23_SessionKeysAreUserIdentities ==
    \A k \in DOMAIN uuid_to_session :
        /\ k \in DOMAIN uuid_to_user
        /\ uuid_to_user[k].user_uuid = k
        /\ \E u \in DOMAIN registered : registered[u].user_uuid = k
        /\ k \notin Tokens

\* Witness of C23: two users have a session each, and a SignOut that
\* presented an issued token has been answered.
C23_Witness ==
    /\ Cardinality(DOMAIN uuid_to_session) = 2
    /\ \E t \in Tasks :
          /\ Replied(t, "SignOut")
          /\ req[t].session_token \in Tokens

\* C24: delete_user does not touch the session store.  Among sign_up,
\* sign_in and delete_user calls nothing removes a session, so every
\* identity that was given a session still has the one issued last for it,
\* also after delete_user has removed the record with that identity.
C24_DeleteUserKeepsSessions ==
    /\ \A id \in Uuids :
          (IssuedTo(id) # {} /\ sessions_lock = NoTask) =>
              /\ id \in DOMAIN uuid_to_session
              /\ uuid_to_session[id] = LastToken(id)
    /\ \A k \in DOMAIN uuid_to_session : IssuedTo(k) # {}

\* Witness of C24: delete_user(I) found the record of a signed-in user,
\* removed it and returned; the session of I is still in the session store
\* and no record has identity I.
C24_Witness ==
    \E t \in Tasks :
        /\ Replied(t, "DeleteUser")
        /\ "username" \in DOMAIN frame[t]
        /\ req[t].user_uuid \in DOMAIN uuid_to_session
        /\ req[t].user_uuid \notin DOMAIN uuid_to_user
        /\ \A u \in DOMAIN username_to_user :
               username_to_user[u].user_uuid # req[t].user_uuid

\* Task t has returned from a delete_user call that found and removed a
\* record.
Deleted(t) == Replied(t, "DeleteUser") /\ "username" \in DOMAIN frame[t]

\* C25: after delete_user(I) has removed the record of username u,
\* get_user_uuid(u, p) is None for every password p until u is registered
\* again; a create_user for a username without a record goes on to insert a
\* record with an identity that differs from every identity removed; and
\* once u is registered again, get_user_uuid with the new password returns
\* the new identity, and no password yields I.
C25_DeletedUserCanRegisterAnew ==
    /\ [](\A t \in Tasks :
             (Deleted(t) /\ users_lock = NoTask) =>
                LET I == req[t].user_uuid
                    u == frame[t].username
                IN  /\ \A p \in Passwords :
                           get_user_uuid(username_to_user, u, p) # Some(I)
                    /\ u \notin DOMAIN registered =>
                           \A p \in Passwords :
                              get_user_uuid(username_to_user, u, p) = None
                    /\ u \in DOMAIN registered =>
                           /\ registered[u].user_uuid # I
                           /\ get_user_uuid(username_to_user, u,
                                            registered[u].password)
                                 = Some(registered[u].user_uuid))
    /\ [][\A t \in Tasks :
             (/\ pc[t] = "su_create_user"
              /\ pc'[t] # pc[t]
              /\ req[t].username \notin DOMAIN username_to_user)
             => /\ pc'[t] = "su_insert_username"
                /\ frame'[t].username = req[t].username
                /\ frame'[t].user_uuid \notin DOMAIN uuid_to_user
                /\ \A d \in Tasks :
                       Deleted(d)
                          => frame'[t].user_uuid # req[d].user_uuid]_vars

\* Witness of C25: delete_user(I) removed the record of username u, and a
\* later SignUp for u has been answered SUCCESS with a new identity, which
\* get_user_uuid returns for the new password.
C25_Witness ==
    \E d, t \in Tasks :
        /\ Deleted(d)
        /\ Replied(t, "SignUp") /\ resp[t].status_code = Success
        /\ req[t].username = frame[d].username
        /\ frame[t].user_uuid # req[d].user_uuid
        /\ users_lock = NoTask
        /\ get_user_uuid(username_to_user, req[t].username, req[t].password)
              = Some(frame[t].user_uuid)

====
